---- MODULE Spec2Model ----
(***************************************************************************)
(* Data-access layer of the IPO tracker (models.py): four tables of a      *)
(* relational store and the functions that read and write them, each on a  *)
(* connection of its own.                                                  *)
(*                                                                         *)
(* A Python Optional is a sequence of length 0 or 1: None is <<>> and a    *)
(* value x is <<x>>.  Dates and timestamps are integers ordered as time.   *)
(* Prices are integers in thousandths of the currency unit.                *)
(***************************************************************************)
EXTENDS Integers, Sequences, FiniteSets, TLC

\* ------------------------------------------------------------------ bounds
MaxIpos == 2       \* values the IPOs.ipo_id sequence may hand out
MaxWatch == 2      \* values the Ongoing_Watchlist.watchlist_id sequence may hand out
MaxInv == 2        \* values the Past_Investments.investment_id sequence may hand out
MaxClock == 1      \* ticks of the store's clock
NProcs == 2        \* concurrent callers of create_user

\* ------------------------------------------------------------------ values
None == <<>>
Some(x) == <<x>>
Val(o) == o[1]

VARIABLES
  Users,              \* committed rows of table Users
  IPOs,               \* committed rows of table IPOs
  Ongoing_Watchlist,  \* committed rows of table Ongoing_Watchlist
  Past_Investments,   \* committed rows of table Past_Investments
  users_seq,          \* last value of the SERIAL sequence of Users.user_id
  ipos_seq,           \* last value of the SERIAL sequence of IPOs.ipo_id
  watchlist_seq,      \* last value of the SERIAL sequence of watchlist_id
  investments_seq,    \* last value of the SERIAL sequence of investment_id
  now,                \* the store's CURRENT_TIMESTAMP
  unclosed,           \* whether a finished call has left its connection open
  ret,                \* the last finished call: its arguments and its outcome
  sess,               \* per concurrent caller: its connection and transaction
  given               \* history: <<user_id, password>> as passed to create_user

vars == <<Users, IPOs, Ongoing_Watchlist, Past_Investments, users_seq, ipos_seq,
          watchlist_seq, investments_seq, now, unclosed, ret, sess, given>>

tables == <<Users, IPOs, Ongoing_Watchlist, Past_Investments>>
seqs == <<users_seq, ipos_seq, watchlist_seq, investments_seq>>

\* ------------------------------------------------------------------ outcomes
\* A call ends by returning a value, by returning None, or by raising.
Returned(n, op, args, v) == [n |-> n, op |-> op, args |-> args, kind |-> "value", value |-> v]
ReturnedNone(n, op, args) == [n |-> n, op |-> op, args |-> args, kind |-> "none", value |-> None]
Raised(n, op, args, e) == [n |-> n, op |-> op, args |-> args, kind |-> "error", value |-> e]

\* psycopg2.IntegrityError and the subclasses the store raises it as
IntegrityError == {"NotNullViolation", "UniqueViolation", "ForeignKeyViolation"}

\* ------------------------------------------------------------------ bcrypt
\* bcrypt.hashpw(password, salt): the stored text carries the salt and a
\* digest that is a one-to-one tag of (salt, password).
hashpw(password, salt) == [salt |-> salt, digest |-> <<salt, password>>]

\* bcrypt.checkpw(password, hashed): re-extracts the salt from the stored
\* hash, hashes the candidate with it and compares.
checkpw(password, hashed) == hashpw(password, hashed.salt) = hashed

\* ------------------------------------------------------------------ Users
\* a constraint on username alone (a bug the schema could have)
UsersUniqueOK_usernameonly(rows, username, email) ==
  \A r \in rows : r.username /= username

\* UNIQUE on username and on email: no row of the table has the new value.
UsersUniqueOK(rows, username, email) ==
  \A r \in rows : r.username /= username /\ r.email /= email

\* The store's verdict on INSERT INTO Users: NOT NULL on username, email and
\* password_hash, then UNIQUE on username and email.
UsersInsertError(rows, username, email, password_hash) ==
  IF username = None \/ email = None \/ password_hash = None
    THEN "NotNullViolation"
  ELSE IF ~UsersUniqueOK(rows, username, email)
    THEN "UniqueViolation"
  ELSE "ok"

\* The row INSERT INTO Users ... RETURNING user_id stores; created_at is not
\* in the column list and takes its default, CURRENT_TIMESTAMP.
UserRow(id, username, email, password_hash, first_name, last_name) ==
  [user_id |-> id, username |-> username, email |-> email,
   password_hash |-> password_hash, first_name |-> first_name,
   last_name |-> last_name, created_at |-> now]

CreateUserArgs(username, email, password, first_name, last_name) ==
  [username |-> username, email |-> email, password |-> password,
   first_name |-> first_name, last_name |-> last_name]

\* an except clause that catches nothing (a bug it could have)
CreateUserCatches_none(e) == FALSE

\* Which exceptions the except clause of create_user catches.
CreateUserCatches(e) == e \in IntegrityError

\* create_user, called by a caller that runs one call at a time.  salt is
\* the value bcrypt.gensalt() draws.
create_user(username, email, password, first_name, last_name, salt) ==
  LET args == CreateUserArgs(username, email, password, first_name, last_name)
      n == 1 - ret.n
  IN
  IF password = None
  THEN \* password.encode raises before the try: the connection stays open
       /\ unclosed' = TRUE
       /\ ret' = Raised(n, "create_user", args, "AttributeError")
       /\ UNCHANGED <<tables, seqs, now, sess, given>>
  ELSE
    LET password_hash == Some(hashpw(Val(password), salt))
        e == UsersInsertError(Users, username, email, password_hash)
    IN
    IF e = "ok"
    THEN /\ users_seq' = users_seq + 1
         /\ Users' = Users \cup {UserRow(users_seq + 1, username, email,
                                         password_hash, first_name, last_name)}
         /\ ret' = Returned(n, "create_user", args, users_seq + 1)
         /\ given' = given \cup {<<users_seq + 1, Val(password)>>}
         /\ UNCHANGED <<IPOs, Ongoing_Watchlist, Past_Investments, ipos_seq,
                        watchlist_seq, investments_seq, now, unclosed, sess>>
    ELSE IF CreateUserCatches(e)
    THEN \* rollback, close, return None
         /\ ret' = ReturnedNone(n, "create_user", args)
         /\ UNCHANGED <<tables, seqs, now, unclosed, sess, given>>
    ELSE /\ unclosed' = TRUE
         /\ ret' = Raised(n, "create_user", args, e)
         /\ UNCHANGED <<tables, seqs, now, sess, given>>

\* SELECT * FROM Users WHERE username = %s; fetchone()
SelectUserByUsername(rows, username) == {r \in rows : r.username = username}

\* authenticate_user without the password check (a bug it could have)
authenticate_user_nocheck(username, password) ==
  LET args == [username |-> username, password |-> password]
      found == SelectUserByUsername(Users, Some(username))
      n == 1 - ret.n
  IN
  /\ IF found = {}
       THEN ret' = ReturnedNone(n, "authenticate_user", args)
       ELSE \E user \in found : ret' = Returned(n, "authenticate_user", args, user)
  /\ UNCHANGED <<tables, seqs, now, unclosed, sess, given>>

\* authenticate_user: fetchone() gives the row of that username, if any; it
\* is returned when the password checks against its stored hash, None is
\* returned otherwise; the connection is closed on both paths.
authenticate_user(username, password) ==
  LET args == [username |-> username, password |-> password]
      found == SelectUserByUsername(Users, Some(username))
      n == 1 - ret.n
  IN
  /\ IF found = {}
       THEN ret' = ReturnedNone(n, "authenticate_user", args)
       ELSE \E user \in found :
              IF checkpw(password, Val(user.password_hash))
                THEN ret' = Returned(n, "authenticate_user", args, user)
                ELSE ret' = ReturnedNone(n, "authenticate_user", args)
  /\ UNCHANGED <<tables, seqs, now, unclosed, sess, given>>

\* ------------------------------------------------------------------ concurrent create_user
\* A caller with no call in progress: no connection, no transaction.
Idle == [pc |-> "idle"]

\* Rows other sessions have inserted and not yet committed.
Uncommitted(p) ==
  {sess[q].row : q \in {q \in DOMAIN sess : q /= p /\ sess[q].pc = "inserted"}}

\* create_user up to the end of cursor.execute, on the caller's own
\* connection.  An INSERT whose username or email another open transaction
\* has inserted waits for that transaction to end, so it runs only when no
\* such row is pending; it is then judged against the committed rows.
cu_execute(p, username, email, password, first_name, last_name, salt) ==
  LET args == CreateUserArgs(username, email, password, first_name, last_name)
      password_hash == Some(hashpw(Val(password), salt))
      e == UsersInsertError(Users, username, email, password_hash)
  IN
  /\ sess[p].pc = "idle"
  /\ password /= None
  /\ UsersUniqueOK(Uncommitted(p), username, email) \/ username = None \/ email = None
  /\ IF e = "ok"
       THEN /\ users_seq' = users_seq + 1
            /\ sess' = [sess EXCEPT ![p] =
                 [pc |-> "inserted", args |-> args,
                  row |-> UserRow(users_seq + 1, username, email, password_hash,
                                  first_name, last_name)]]
       ELSE /\ sess' = [sess EXCEPT ![p] = [pc |-> "raised", args |-> args, e |-> e]]
            /\ UNCHANGED users_seq
  /\ UNCHANGED <<tables, ipos_seq, watchlist_seq, investments_seq, now,
                 unclosed, ret, given>>

\* fetchone, conn.commit(), conn.close(), return user_id
cu_commit(p) ==
  /\ sess[p].pc = "inserted"
  /\ Users' = Users \cup {sess[p].row}
  /\ ret' = Returned(1 - ret.n, "create_user", sess[p].args, sess[p].row.user_id)
  /\ given' = given \cup {<<sess[p].row.user_id, Val(sess[p].args.password)>>}
  /\ sess' = [sess EXCEPT ![p] = Idle]
  /\ UNCHANGED <<IPOs, Ongoing_Watchlist, Past_Investments, seqs, now, unclosed>>

\* the exception of cursor.execute: caught (rollback, close, return None)
\* or propagated with the connection left open
cu_except(p) ==
  /\ sess[p].pc = "raised"
  /\ IF CreateUserCatches(sess[p].e)
       THEN /\ ret' = ReturnedNone(1 - ret.n, "create_user", sess[p].args)
            /\ UNCHANGED unclosed
       ELSE /\ unclosed' = TRUE
            /\ ret' = Raised(1 - ret.n, "create_user", sess[p].args, sess[p].e)
  /\ sess' = [sess EXCEPT ![p] = Idle]
  /\ UNCHANGED <<tables, seqs, now, given>>

\* ------------------------------------------------------------------ Python values
\* An int and a bool as psycopg2 tells them apart when it adapts a parameter:
\* True is the number 1 of type bool.
PyInt(i) == [t |-> "int", v |-> i]
PyTrue == [t |-> "bool", v |-> 1]

\* dict.get(key, default) on a dict given as a function of its keys
Get(d, key, default) == IF key \in DOMAIN d THEN d[key] ELSE default

\* ------------------------------------------------------------------ store
\* A value stored in a DECIMAL(10, 2) column: rounded to hundredths, half
\* away from zero (prices are whole thousandths, never negative here).
Decimal2(x) == IF x = None THEN None ELSE Some(((Val(x) + 5) \div 10) * 10)

\* FOREIGN KEY (user_id) REFERENCES Users, (ipo_id) REFERENCES IPOs, both
\* columns NOT NULL, as Ongoing_Watchlist and Past_Investments declare them.
ReferenceError(user_id, ipo_id) ==
  IF user_id = None \/ ipo_id = None
    THEN "NotNullViolation"
  ELSE IF \/ \A u \in Users : u.user_id /= Val(user_id)
          \/ \A i \in IPOs : i.ipo_id /= Val(ipo_id)
    THEN "ForeignKeyViolation"
  ELSE "ok"

\* A call that raises after get_db_connection() and before conn.close():
\* nothing is committed and the connection is left open.
RaiseWithOpenConnection(op, args, e) ==
  /\ unclosed' = TRUE
  /\ ret' = Raised(1 - ret.n, op, args, e)
  /\ UNCHANGED <<tables, seqs, now, sess, given>>

\* ------------------------------------------------------------------ IPOs
\* The row store_ipo inserts; ipo_id, created_at and updated_at are not in
\* the column list and take their defaults.
IpoRow(id, ipo_data) ==
  [ipo_id |-> id,
   name |-> ipo_data["name"],
   symbol |-> ipo_data["symbol"],
   company_name |-> Get(ipo_data, "company_name", None),
   offering_price |-> Decimal2(Get(ipo_data, "offering_price", None)),
   total_shares |-> Get(ipo_data, "total_shares", None),
   ipo_date |-> Get(ipo_data, "ipo_date", None),
   status |-> Get(ipo_data, "status", Some("upcoming")),
   description |-> Get(ipo_data, "description", None),
   created_at |-> now,
   updated_at |-> now]

\* store_ipo: ipo_data['name'] and ipo_data['symbol'] raise KeyError when
\* the key is missing, the store rejects a NULL name or symbol; otherwise
\* the row is inserted and committed and True is returned.
store_ipo(ipo_data) ==
  LET args == [ipo_data |-> ipo_data] IN
  IF "name" \notin DOMAIN ipo_data \/ "symbol" \notin DOMAIN ipo_data
    THEN RaiseWithOpenConnection("store_ipo", args, "KeyError")
  ELSE IF ipo_data["name"] = None \/ ipo_data["symbol"] = None
    THEN RaiseWithOpenConnection("store_ipo", args, "NotNullViolation")
  ELSE /\ ipos_seq < MaxIpos
       /\ ipos_seq' = ipos_seq + 1
       /\ IPOs' = IPOs \cup {IpoRow(ipos_seq + 1, ipo_data)}
       /\ ret' = Returned(1 - ret.n, "store_ipo", args, PyTrue)
       /\ UNCHANGED <<Users, Ongoing_Watchlist, Past_Investments, users_seq,
                      watchlist_seq, investments_seq, now, unclosed, sess, given>>

\* get_ipo: SELECT * FROM IPOs WHERE ipo_id = %s.  The store has no
\* integer = boolean comparison, so a bool parameter makes execute raise.
get_ipo(ipo_id) ==
  LET args == [ipo_id |-> ipo_id]
      found == {i \in IPOs : i.ipo_id = ipo_id.v}
  IN
  IF ipo_id.t /= "int"
    THEN RaiseWithOpenConnection("get_ipo", args, "UndefinedFunction")
  ELSE /\ IF found = {}
            THEN ret' = ReturnedNone(1 - ret.n, "get_ipo", args)
            ELSE \E ipo \in found : ret' = Returned(1 - ret.n, "get_ipo", args, ipo)
       /\ UNCHANGED <<tables, seqs, now, unclosed, sess, given>>

\* ------------------------------------------------------------------ Ongoing_Watchlist
\* add_to_watchlist: INSERT ... RETURNING watchlist_id, commit, close; an
\* error of the store propagates from cursor.execute.
add_to_watchlist(user_id, ipo_id, expiry_date) ==
  LET args == [user_id |-> user_id, ipo_id |-> ipo_id, expiry_date |-> expiry_date]
      e == ReferenceError(user_id, ipo_id)
  IN
  IF e /= "ok"
    THEN RaiseWithOpenConnection("add_to_watchlist", args, e)
  ELSE /\ watchlist_seq < MaxWatch
       /\ watchlist_seq' = watchlist_seq + 1
       /\ Ongoing_Watchlist' = Ongoing_Watchlist \cup
            {[watchlist_id |-> watchlist_seq + 1, user_id |-> Val(user_id),
              ipo_id |-> Val(ipo_id), expiry_date |-> expiry_date]}
       /\ ret' = Returned(1 - ret.n, "add_to_watchlist", args, watchlist_seq + 1)
       /\ UNCHANGED <<Users, IPOs, Past_Investments, users_seq, ipos_seq,
                      investments_seq, now, unclosed, sess, given>>

\* the DELETE without the ownership condition (a bug it could have)
DeleteWatchlist_anyuser(rows, watchlist_id, user_id) ==
  {w \in rows : w.watchlist_id /= watchlist_id}

\* DELETE FROM Ongoing_Watchlist WHERE watchlist_id = %s AND user_id = %s
DeleteWatchlist(rows, watchlist_id, user_id) ==
  {w \in rows : ~(w.watchlist_id = watchlist_id /\ w.user_id = user_id)}

\* remove_from_watchlist: the DELETE, commit, close, return True
remove_from_watchlist(watchlist_id, user_id) ==
  /\ Ongoing_Watchlist' = DeleteWatchlist(Ongoing_Watchlist, watchlist_id, user_id)
  /\ ret' = Returned(1 - ret.n, "remove_from_watchlist",
                     [watchlist_id |-> watchlist_id, user_id |-> user_id], PyTrue)
  /\ UNCHANGED <<Users, IPOs, Past_Investments, seqs, now, unclosed, sess, given>>

\* ORDER BY ... ASC: NULLs sort after every value.
AscLE(a, b) == IF b = None THEN TRUE ELSE IF a = None THEN FALSE ELSE Val(a) <= Val(b)

\* ORDER BY ... DESC: NULLs sort before every value.
DescLE(a, b) == IF a = None THEN TRUE ELSE IF b = None THEN FALSE ELSE Val(a) >= Val(b)

\* Every order a query may return the rows of S in.
Orders(S) ==
  {f \in [1..Cardinality(S) -> S] : \A i, j \in DOMAIN f : i /= j => f[i] /= f[j]}

\* One row of SELECT ow.watchlist_id, ow.expiry_date, i.* ... JOIN IPOs AS i
WatchlistJoin(w, i) ==
  [watchlist_id |-> w.watchlist_id, expiry_date |-> w.expiry_date,
   ipo_id |-> i.ipo_id, name |-> i.name, symbol |-> i.symbol,
   company_name |-> i.company_name, offering_price |-> i.offering_price,
   total_shares |-> i.total_shares, ipo_date |-> i.ipo_date, status |-> i.status,
   description |-> i.description, created_at |-> i.created_at,
   updated_at |-> i.updated_at]

\* ... FROM Ongoing_Watchlist AS ow JOIN IPOs AS i ON ow.ipo_id = i.ipo_id
\*     WHERE ow.user_id = %s
SelectWatchlist(user_id) ==
  {WatchlistJoin(w, i) : <<w, i>> \in
     {x \in Ongoing_Watchlist \X IPOs :
        x[1].ipo_id = x[2].ipo_id /\ x[1].user_id = user_id}}

\* the rows in descending order of date (a bug it could have)
WatchlistOrder_desc(f) == \A i, j \in DOMAIN f : i < j => DescLE(f[i].ipo_date, f[j].ipo_date)

\* ORDER BY i.ipo_date ASC; rows of equal date come in any order
WatchlistOrder(f) == \A i, j \in DOMAIN f : i < j => AscLE(f[i].ipo_date, f[j].ipo_date)

\* get_user_watchlist: the joined rows of the user as a list, in that order
get_user_watchlist(user_id) ==
  /\ \E f \in Orders(SelectWatchlist(user_id)) :
       /\ WatchlistOrder(f)
       /\ ret' = Returned(1 - ret.n, "get_user_watchlist", [user_id |-> user_id], f)
  /\ UNCHANGED <<tables, seqs, now, unclosed, sess, given>>

\* ------------------------------------------------------------------ Past_Investments
\* The row add_investment inserts.  All six columns are in the column list
\* of the INSERT, so each takes the parameter passed for it, None as NULL;
\* a column's DEFAULT applies only to a column the INSERT leaves out.
InvestmentRow(id, user_id, ipo_id, shares_purchased, purchase_price, sold_date, status) ==
  [investment_id |-> id, user_id |-> Val(user_id), ipo_id |-> Val(ipo_id),
   shares_purchased |-> shares_purchased,
   purchase_price |-> Decimal2(purchase_price),
   sold_date |-> sold_date, status |-> status]

\* add_investment(user_id, ipo_id, shares_purchased, purchase_price,
\* sold_date=None, status='pending'); kw holds the keyword arguments the
\* caller passes, the others take the defaults of the signature.
add_investment(user_id, ipo_id, shares_purchased, purchase_price, kw) ==
  LET sold_date == Get(kw, "sold_date", None)
      status == Get(kw, "status", Some("pending"))
      args == [user_id |-> user_id, ipo_id |-> ipo_id,
               shares_purchased |-> shares_purchased,
               purchase_price |-> purchase_price, kw |-> kw]
      e == IF shares_purchased = None \/ purchase_price = None
             THEN "NotNullViolation" ELSE ReferenceError(user_id, ipo_id)
  IN
  IF e /= "ok"
    THEN RaiseWithOpenConnection("add_investment", args, e)
  ELSE /\ investments_seq < MaxInv
       /\ investments_seq' = investments_seq + 1
       /\ Past_Investments' = Past_Investments \cup
            {InvestmentRow(investments_seq + 1, user_id, ipo_id, shares_purchased,
                           purchase_price, sold_date, status)}
       /\ ret' = Returned(1 - ret.n, "add_investment", args, investments_seq + 1)
       /\ UNCHANGED <<Users, IPOs, Ongoing_Watchlist, users_seq, ipos_seq,
                      watchlist_seq, now, unclosed, sess, given>>

\* if sold_date: a datetime is always true, None is false
Truthy(sold_date) == sold_date /= None

\* the UPDATE without the ownership condition (a bug it could have)
UpdateInvestment_anyuser(row, investment_id, user_id, status, sold_date) ==
  IF row.investment_id = investment_id
    THEN IF Truthy(sold_date)
           THEN [row EXCEPT !.status = status, !.sold_date = sold_date]
           ELSE [row EXCEPT !.status = status]
    ELSE row

\* The two UPDATE statements: SET status (and sold_date)
\* WHERE investment_id = %s AND user_id = %s
UpdateInvestment(row, investment_id, user_id, status, sold_date) ==
  IF row.investment_id = investment_id /\ row.user_id = user_id
    THEN IF Truthy(sold_date)
           THEN [row EXCEPT !.status = status, !.sold_date = sold_date]
           ELSE [row EXCEPT !.status = status]
    ELSE row

\* update_investment_status: one UPDATE, commit, close, return True
update_investment_status(investment_id, user_id, status, sold_date) ==
  /\ Past_Investments' =
       {UpdateInvestment(r, investment_id, user_id, status, sold_date) :
          r \in Past_Investments}
  /\ ret' = Returned(1 - ret.n, "update_investment_status",
                     [investment_id |-> investment_id, user_id |-> user_id,
                      status |-> status, sold_date |-> sold_date], PyTrue)
  /\ UNCHANGED <<Users, IPOs, Ongoing_Watchlist, seqs, now, unclosed, sess, given>>

\* One row of SELECT pi.*, i.name AS ipo_name, i.symbol, i.ipo_date
InvestmentJoin(r, i) ==
  [investment_id |-> r.investment_id, user_id |-> r.user_id, ipo_id |-> r.ipo_id,
   shares_purchased |-> r.shares_purchased, purchase_price |-> r.purchase_price,
   sold_date |-> r.sold_date, status |-> r.status,
   ipo_name |-> i.name, symbol |-> i.symbol, ipo_date |-> i.ipo_date]

\* ... FROM Past_Investments AS pi JOIN IPOs AS i ON pi.ipo_id = i.ipo_id
\*     WHERE pi.user_id = %s
SelectInvestments(user_id) ==
  {InvestmentJoin(r, i) : <<r, i>> \in
     {x \in Past_Investments \X IPOs :
        x[1].ipo_id = x[2].ipo_id /\ x[1].user_id = user_id}}

\* get_user_investments: the joined rows, ORDER BY pi.sold_date DESC
get_user_investments(user_id) ==
  /\ \E f \in Orders(SelectInvestments(user_id)) :
       /\ \A i, j \in DOMAIN f : i < j => DescLE(f[i].sold_date, f[j].sold_date)
       /\ ret' = Returned(1 - ret.n, "get_user_investments", [user_id |-> user_id], f)
  /\ UNCHANGED <<tables, seqs, now, unclosed, sess, given>>

\* ------------------------------------------------------------------ clock
Tick ==
  /\ now < MaxClock
  /\ now' = now + 1
  /\ UNCHANGED <<tables, seqs, unclosed, ret, sess, given>>

\* ------------------------------------------------------------------ inputs
Usernames == {"alice", "bob"}
Emails == {"a@x", "b@x"}
Passwords == {"pw1", "pw2"}
Salts == {"s1", "s2"}
Opt(S) == {None} \cup {Some(x) : x \in S}


Init ==
  /\ Users = {}
  /\ IPOs = {}
  /\ Ongoing_Watchlist = {}
  /\ Past_Investments = {}
  /\ users_seq = 0
  /\ ipos_seq = 0
  /\ watchlist_seq = 0
  /\ investments_seq = 0
  /\ now = 0
  /\ unclosed = FALSE
  /\ ret = [n |-> 0, op |-> "none", args |-> None, kind |-> "none", value |-> None]
  /\ sess = [p \in 1..NProcs |-> Idle]
  /\ given = {}

\* ------------------------------------------------------------------ user accounts
NextUsers ==
  \/ \E username \in Opt(Usernames), email \in Opt(Emails),
        password \in Opt(Passwords), salt \in Salts :
       create_user(username, email, password, None, None, salt)
  \/ \E username \in Usernames, password \in Passwords :
       authenticate_user(username, password)

SpecUsers == Init /\ [][NextUsers]_vars

\* ------------------------------------------------------------------ concurrent callers
NextConc ==
  \/ \E p \in 1..NProcs, username \in Usernames, email \in Emails,
        password \in Passwords :
       cu_execute(p, Some(username), Some(email), Some(password), None, None, "s1")
  \/ \E p \in 1..NProcs : cu_commit(p)
  \/ \E p \in 1..NProcs : cu_except(p)
  \/ \E username \in Usernames, password \in Passwords :
       authenticate_user(username, password)

SpecConc == Init /\ [][NextConc]_vars

\* ------------------------------------------------------------------ IPO records
\* A dict from the entries chosen for it; an entry is {} (key left out) or
\* {v} (key present with value v).
Entry(key, c) == [k \in {key : v \in c} |-> CHOOSE v \in c : TRUE]

IpoDicts ==
  {Entry("name", n) @@ Entry("symbol", {Some("ACM")}) @@ Entry("ipo_date", d)
     @@ Entry("status", st) @@ Entry("offering_price", pr) :
   n \in {{}, {None}, {Some("Acme")}},
   d \in {{}, {Some(1)}},
   st \in {{}, {None}, {Some("open")}},
   pr \in {{}, {Some(1000)}, {Some(1005)}}}

NextIPO ==
  \/ \E ipo_data \in IpoDicts : store_ipo(ipo_data)
  \/ \E i \in 1..(MaxIpos + 1) : get_ipo(PyInt(i))
  \/ ret.op = "store_ipo" /\ ret.kind = "value" /\ get_ipo(ret.value)

SpecIPO == Init /\ [][NextIPO]_vars

\* ------------------------------------------------------------------ watchlists
\* The accounts and listings the watchlist and the ledger refer to.
EmailOf(username) == IF username = "alice" THEN "a@x" ELSE "b@x"
Listing(d) == Entry("name", {Some("Acme")}) @@ Entry("symbol", {Some("ACM")}) @@ Entry("ipo_date", d)

UserIds == 1..Cardinality(Usernames)
IpoIds == 1..MaxIpos

NextWatchlist ==
  \/ \E username \in Usernames :
       create_user(Some(username), Some(EmailOf(username)), Some("pw1"), None, None, "s1")
  \/ \E d \in {None, Some(1), Some(2)} :
       (\A i \in IPOs : i.ipo_date /= d) /\ store_ipo(Listing({d}))
  \/ \E user_id \in UserIds, ipo_id \in IpoIds :
       add_to_watchlist(Some(user_id), Some(ipo_id), None)
  \/ \E watchlist_id \in 1..MaxWatch, user_id \in UserIds :
       remove_from_watchlist(watchlist_id, user_id)
  \/ \E user_id \in UserIds : get_user_watchlist(user_id)

SpecWatchlist == Init /\ [][NextWatchlist]_vars

\* ------------------------------------------------------------------ investments
Keywords ==
  {Entry("sold_date", sd) @@ Entry("status", st) :
   sd \in {{}, {Some(1)}}, st \in {{}}}

NextInvest ==
  \/ \E username \in Usernames :
       create_user(Some(username), Some(EmailOf(username)), Some("pw1"), None, None, "s1")
  \/ IPOs = {} /\ store_ipo(Listing({Some(1)}))
  \/ \E user_id \in UserIds, ipo_id \in IpoIds, kw \in Keywords :
       add_investment(Some(user_id), Some(ipo_id), Some(10), Some(1000), kw)
  \/ \E investment_id \in 1..MaxInv, user_id \in UserIds, sold_date \in {None, Some(2)} :
       update_investment_status(investment_id, user_id, Some("sold"), sold_date)
  \/ \E user_id \in UserIds : get_user_investments(user_id)

SpecInvest == Init /\ [][NextInvest]_vars

\* the ledger with the store's clock running
NextLedger == NextInvest \/ Tick

SpecLedger == Init /\ [][NextLedger]_vars

\* ------------------------------------------------------------------ the whole layer
Next == NextUsers \/ NextIPO \/ NextWatchlist \/ NextLedger

Spec == Init /\ [][Next]_vars

\* ------------------------------------------------------------------ properties
\* This step is the return of a call of op.
IsCall(op) == ret'.n /= ret.n /\ ret'.op = op

\* A row of rows has this username or this email.
Collides(rows, username, email) ==
  \E r \in rows : r.username = username \/ r.email = email

\* C1: create_user with a username and an email no row has returns the
\* generated user_id and adds exactly one row, the one of that id, username
\* and email; create_user with the username of an existing row returns None
\* and leaves the rows of Users as they were.
C1_CreateThenDuplicate ==
  [][IsCall("create_user") /\ ret'.args.username /= None
       /\ ret'.args.email /= None /\ ret'.args.password /= None
     => LET a == ret'.args IN
        /\ ~Collides(Users, a.username, a.email) =>
             /\ ret'.kind = "value"
             /\ \E r \in Users' \ Users :
                  /\ Users' = Users \cup {r}
                  /\ r.user_id = ret'.value
                  /\ r.username = a.username /\ r.email = a.email
             /\ Cardinality(Users') = Cardinality(Users) + 1
        /\ (\E r \in Users : r.username = a.username) =>
             /\ ret'.kind = "none"
             /\ Users' = Users]_vars

\* C1 witness: two rows exist and the last call, a create_user with the
\* username of one of them, returned None.
C1_Witness ==
  /\ Cardinality(Users) = 2
  /\ ret.op = "create_user" /\ ret.kind = "none"
  /\ ret.args.password /= None
  /\ \E r \in Users : r.username = ret.args.username /\ r.email /= ret.args.email

\* No two rows of Users share a username or an email.
UsersUnique ==
  \A r1, r2 \in Users :
    r1 /= r2 => r1.username /= r2.username /\ r1.email /= r2.email
                 /\ r1.user_id /= r2.user_id

\* C2: with create_user calls interleaved on connections of their own, no
\* two rows of Users share a username or an email, and a call the store
\* rejected for it ends by returning None, never by raising.
C2_UniqueUnderConcurrency ==
  /\ UsersUnique
  /\ \A p \in DOMAIN sess :
       sess[p].pc = "raised" =>
         /\ sess[p].e = "UniqueViolation"
         /\ Collides(Users, sess[p].args.username, sess[p].args.email)
         /\ CreateUserCatches(sess[p].e)
  /\ ret.op = "create_user" => ret.kind \in {"value", "none"}
  /\ ret.op = "create_user" /\ ret.kind = "none" =>
       Collides(Users, ret.args.username, ret.args.email)

\* C2 witness: a call was rejected for the username a call that has just
\* committed created, while both tables rows are there.
C2_Witness ==
  /\ Cardinality(Users) = 2
  /\ ret.op = "create_user" /\ ret.kind = "value"
  /\ \E p \in DOMAIN sess :
       /\ sess[p].pc = "raised"
       /\ sess[p].args.username = ret.args.username
       /\ sess[p].args.email /= ret.args.email

\* C3: create_user returns None only when the username or the email
\* collides with a row; an insert that fails for another reason (a missing
\* username or email) ends by raising.
C3_NoneOnlyOnCollision ==
  ret.op = "create_user" =>
    /\ ret.kind = "none" => Collides(Users, ret.args.username, ret.args.email)
    /\ (ret.args.username = None \/ ret.args.email = None) => ret.kind = "error"

\* The rows of that username whose password at creation was this one.
Matching(username, password) ==
  {r \in Users : r.username = Some(username) /\ <<r.user_id, password>> \in given}

\* C4: authenticate_user returns the row of the username exactly when one
\* exists and the password is the one given at its creation, returns None
\* otherwise (no such username, or another password), and changes no row.
C4_Authenticate ==
  [][IsCall("authenticate_user")
     => LET a == ret'.args
            m == Matching(a.username, a.password) IN
        /\ tables' = tables
        /\ IF m /= {}
             THEN ret'.kind = "value" /\ ret'.value \in m
                  /\ ret'.value.username = Some(a.username)
             ELSE ret'.kind = "none"]_vars

\* C4 witness: the last call authenticated a user whose row has another
\* salt than the row of the other user.
C4_Witness ==
  /\ ret.op = "authenticate_user" /\ ret.kind = "value"
  /\ ret.value \in Users
  /\ \E r \in Users : r.user_id /= ret.value.user_id
                       /\ Val(r.password_hash).salt /= Val(ret.value.password_hash).salt

\* C5: fetching with get_ipo by what store_ipo returned yields the record
\* store_ipo was given, field by field, with status "upcoming" when none
\* was submitted; get_ipo returns None for an id no row has.
C5_StoreThenGet ==
  [][IsCall("get_ipo") =>
       /\ (ret.op = "store_ipo" /\ ret.kind = "value" /\ ret'.args.ipo_id = ret.value) =>
            LET d == ret.args.ipo_data IN
            /\ ret'.kind = "value"
            /\ \A k \in DOMAIN d : ret'.value[k] = d[k]
            /\ "status" \notin DOMAIN d => ret'.value.status = Some("upcoming")
       /\ (ret'.args.ipo_id.t = "int"
             /\ \A i \in IPOs : i.ipo_id /= ret'.args.ipo_id.v) => ret'.kind = "none"]_vars

\* C6: remove_from_watchlist deletes the entries of that id and that user
\* and no other: an entry of another id or another user stays, nothing is
\* added, True is returned whether or not a row matched, and the listing
\* of that user right after it has no entry of that id.
C6_RemoveOwnedOnly ==
  [][/\ IsCall("remove_from_watchlist") =>
          LET a == ret'.args IN
          /\ \A w \in Ongoing_Watchlist :
               IF w.watchlist_id = a.watchlist_id /\ w.user_id = a.user_id
                 THEN w \notin Ongoing_Watchlist'
                 ELSE w \in Ongoing_Watchlist'
          /\ Ongoing_Watchlist' \subseteq Ongoing_Watchlist
          /\ ret'.kind = "value" /\ ret'.value = PyTrue
          /\ <<Users, IPOs, Past_Investments>>' = <<Users, IPOs, Past_Investments>>
     /\ (IsCall("get_user_watchlist") /\ ret.op = "remove_from_watchlist"
           /\ ret'.args.user_id = ret.args.user_id) =>
          \A i \in DOMAIN ret'.value :
            ret'.value[i].watchlist_id /= ret.args.watchlist_id]_vars

\* C6 witness: the last call removed an entry of its caller (the id was
\* handed out and no entry has it any more) and an entry of another user
\* is still there.
C6_Witness ==
  /\ ret.op = "remove_from_watchlist"
  /\ ret.args.watchlist_id <= watchlist_seq
  /\ \A w \in Ongoing_Watchlist : w.watchlist_id /= ret.args.watchlist_id
  /\ \E w \in Ongoing_Watchlist : w.user_id /= ret.args.user_id

\* The row update_investment_status is to leave in the place of r.
Updated(r, a) ==
  IF r.investment_id = a.investment_id /\ r.user_id = a.user_id
    THEN [r EXCEPT !.status = a.status,
                   !.sold_date = IF a.sold_date /= None THEN a.sold_date ELSE r.sold_date]
    ELSE r

\* C7: update_investment_status changes the row of that investment_id and
\* that user_id only: status becomes the given one, sold_date the given one
\* or, when none is given, stays; every other row, and so the row of
\* another user, is as it was.
C7_UpdateOwnedOnly ==
  [][IsCall("update_investment_status") =>
       /\ Past_Investments' = {Updated(r, ret'.args) : r \in Past_Investments}
       /\ \A r \in Past_Investments :
            (r.investment_id /= ret'.args.investment_id \/ r.user_id /= ret'.args.user_id)
              => r \in Past_Investments'
       /\ <<Users, IPOs, Ongoing_Watchlist>>' = <<Users, IPOs, Ongoing_Watchlist>>]_vars

\* C7 witness: the last call, without a sold_date, set the status of its
\* caller's investment and left the sold_date recorded at insertion, while a
\* row of another user is still pending.
C7_Witness ==
  /\ ret.op = "update_investment_status" /\ ret.args.sold_date = None
  /\ \E r \in Past_Investments :
       /\ r.investment_id = ret.args.investment_id /\ r.user_id = ret.args.user_id
       /\ r.status = Some("sold") /\ r.sold_date = Some(1)
  /\ \E r \in Past_Investments :
       r.user_id /= ret.args.user_id /\ r.status = Some("pending")

\* C8: add_investment returns the investment_id of the row it adds; without
\* a sold_date the row's sold_date is the store's time at the insert, and
\* without a status its status is "pending".
C8_InvestmentDefaults ==
  [][(IsCall("add_investment") /\ ret'.kind = "value") =>
       \E r \in Past_Investments' \ Past_Investments :
         /\ r.investment_id = ret'.value
         /\ "sold_date" \notin DOMAIN ret'.args.kw => r.sold_date = Some(now)
         /\ "status" \notin DOMAIN ret'.args.kw => r.status = Some("pending")]_vars

\* C9: get_user_watchlist returns one element per watchlist entry of the
\* user and none of another user, each with the columns of its IPO, an
\* entry of an earlier IPO date before one of a later date.
C9_WatchlistListing ==
  ret.op = "get_user_watchlist" =>
    LET f == ret.value
        own == {w \in Ongoing_Watchlist : w.user_id = ret.args.user_id}
    IN
    /\ ret.kind = "value"
    /\ Len(f) = Cardinality(own)
    /\ \A w \in own : \E i \in DOMAIN f :
         /\ f[i].watchlist_id = w.watchlist_id
         /\ f[i].expiry_date = w.expiry_date
         /\ \E ipo \in IPOs :
              /\ ipo.ipo_id = w.ipo_id
              /\ \A c \in DOMAIN ipo : f[i][c] = ipo[c]
    /\ \A i, j \in DOMAIN f :
         (f[i].ipo_date /= None /\ f[j].ipo_date /= None
            /\ Val(f[i].ipo_date) < Val(f[j].ipo_date)) => i < j

\* C9 witness: a listing of two entries where the entry added later is of
\* the IPO of the earlier date.
C9_Witness ==
  /\ ret.op = "get_user_watchlist" /\ Len(ret.value) = 2
  /\ ret.value[1].ipo_date /= None /\ ret.value[2].ipo_date /= None
  /\ Val(ret.value[1].ipo_date) < Val(ret.value[2].ipo_date)
  /\ ret.value[1].watchlist_id > ret.value[2].watchlist_id

\* C10: whatever way the calls ended, no connection of a finished call is
\* still open.
C10_ConnectionsReleased == ~unclosed

====
